---- MODULE Spec2Model ----
(***************************************************************************)
(* A model of bork, a read-only extractor for Borg repositories            *)
(* (src/src/main.rs, src/src/msgpack.rs).                                  *)
(*                                                                         *)
(* Bytes are naturals in 0..255; a byte buffer is a sequence of bytes.     *)
(* A Result<T> is a record [ok, val, err].                                 *)
(***************************************************************************)
EXTENDS Integers, Sequences, FiniteSets, TLC

VARIABLES
    \* ---- unpack_data, one call (main.rs:122-165)
    u_data,     \* the modelled bytes of the blob passed to unpack_data
    u_pad,      \* further compressed bytes of the blob whose values are not modelled
    u_pc,       \* "call" | "loop" | "returned"
    u_size,     \* the local `size` of the LZ4 retry loop
    u_attempt,  \* history: the buffer sizes handed to the codec, in order
    u_result,   \* the value unpack_data returned
    \* ---- the repository on disk (read only)
    has_config, \* <path>/config exists and has [repository] id
    fs_data,    \* the entries of <path>/data: records [name, is_dir, files]
    log,        \* history: the log entries written to the segments, in id order
    damage,     \* history: what was done to a segment file after it was written
    item_recs,  \* history: the item records written to the item blob
    \* ---- extract (main.rs:33-110)
    pc,         \* control position of extract
    segments,   \* the segments still to replay (the iterator over segments())
    open_seg,   \* the OpenSegment being iterated: [open, bytes, pos, long_tail]
    items,      \* the store: HashMap<Vec<u8>, Vec<u8>>
    replayed,   \* history: how many log entries have been applied
    yielded,    \* history: the entries the segment iterators yielded, in order
    error,      \* the error extract returned, "" while there is none
    archives,   \* the rest of the iteration over manifest.archives
    item_ids,   \* the rest of the iteration over archive.items
    cursor,     \* the Cursor over an unpacked item blob: [data, pos]
    item,       \* the item being written: [path, subbed_path, chunks to go]
    out_files,  \* the files under example/extracted: name -> bytes
    seen,       \* history: the ids whose lookup found a blob
    decoded,    \* history: the items decoded, as [path, subbed_path, chunks]
    run,        \* which run of the program this is
    first_out   \* history: the output files the first run ended with

u_vars == <<u_data, u_pad, u_pc, u_size, u_attempt, u_result>>

repo_vars == <<has_config, fs_data, log, damage, item_recs>>

replay_vars == <<pc, segments, open_seg, items, replayed, yielded, error>>

walk_vars == <<archives, item_ids, cursor, item, out_files, seen, decoded>>

run_vars == <<run, first_out>>

vars == <<u_vars, repo_vars, replay_vars, walk_vars, run_vars>>

-----------------------------------------------------------------------------
(* Results *)

Ok(v) == [ok |-> TRUE, val |-> v, err |-> ""]

Err(e) == [ok |-> FALSE, val |-> <<>>, err |-> e]

NoResult == [ok |-> FALSE, val |-> <<>>, err |-> "pending"]

RECURSIVE SeqsUpTo(_, _)
SeqsUpTo(S, n) ==
    IF n = 0 THEN {<<>>}
    ELSE LET shorter == SeqsUpTo(S, n - 1)
         IN  shorter \cup {Append(s, x) : s \in {t \in shorter : Len(t) = n - 1}, x \in S}

SubsetsUpTo(S, n) == {T \in SUBSET S : Cardinality(T) <= n}

-----------------------------------------------------------------------------
(* The state of a part of the program that is not running *)

NoSegment == [open |-> FALSE, bytes |-> <<>>, pos |-> 0, long_tail |-> FALSE]

NoDamage == [kind |-> "none", at |-> 0, v |-> 0]

NoCursor == [data |-> <<>>, pos |-> 0]

NoItem == [path |-> <<>>, subbed_path |-> <<>>, chunks |-> <<>>]

NoFiles == <<>>

EmptyStore == <<>>

UnpackIdle ==
    /\ u_data = <<>>
    /\ u_pad = 0
    /\ u_pc = "idle"
    /\ u_size = 0
    /\ u_attempt = <<>>
    /\ u_result = NoResult

\* the locals of extract at its entry
ExtractEntry ==
    /\ segments = <<>>
    /\ open_seg = NoSegment
    /\ items = EmptyStore
    /\ replayed = 0
    /\ yielded = <<>>
    /\ error = ""
    /\ archives = <<>>
    /\ item_ids = <<>>
    /\ cursor = NoCursor
    /\ item = NoItem
    /\ out_files = NoFiles
    /\ seen = {}
    /\ decoded = <<>>

ExtractIdle ==
    /\ has_config = FALSE
    /\ fs_data = {}
    /\ log = <<>>
    /\ damage = NoDamage
    /\ item_recs = <<>>
    /\ pc = "idle"
    /\ ExtractEntry
    /\ run = 1
    /\ first_out = NoFiles

-----------------------------------------------------------------------------
(* Cursor reads (byteorder::ReadBytesExt over std::io::Cursor).  A read    *)
(* that needs more bytes than remain fails with UnexpectedEof.             *)

read_u8(data, pos) ==
    IF pos + 1 <= Len(data)
    THEN [ok |-> TRUE, v |-> data[pos + 1], pos |-> pos + 1]
    ELSE [ok |-> FALSE, v |-> 0, pos |-> pos]

read_u16_le(data, pos) ==
    IF pos + 2 <= Len(data)
    THEN [ok |-> TRUE, v |-> data[pos + 1] + 256 * data[pos + 2], pos |-> pos + 2]
    ELSE [ok |-> FALSE, v |-> 0, pos |-> pos]

-----------------------------------------------------------------------------
(* unpack_data: the envelope header (main.rs:123-142).                     *)
(* kind "ret": the function returns res; kind "lz4": it enters the retry   *)
(* loop on src.                                                            *)

SliceFrom(data, position) == SubSeq(data, position + 1, Len(data))

SliceFromOffByOne(data, position) == SubSeq(data, position, Len(data))

sliced_data(data, position) == SliceFrom(data, position)

UnpackRet(r) == [kind |-> "ret", res |-> r, src |-> <<>>]

unpack_header_no_checks(data) ==
    LET enc == read_u8(data, 0)
        tag == read_u16_le(data, enc.pos)
    IN  IF tag.ok /\ tag.v = 1
        THEN [kind |-> "lz4", res |-> NoResult, src |-> sliced_data(data, tag.pos)]
        ELSE UnpackRet(Ok(sliced_data(data, tag.pos)))

unpack_header(data) ==
    LET enc == read_u8(data, 0)
    IN  IF ~enc.ok THEN UnpackRet(Err("read encryption"))
        ELSE IF enc.v # 2 THEN UnpackRet(Err("only plaintext data is supported"))
        ELSE LET tag == read_u16_le(data, enc.pos)
             IN  IF ~tag.ok THEN UnpackRet(Err("read compression"))
                 ELSE IF tag.v = 0
                      THEN UnpackRet(Ok(sliced_data(data, tag.pos)))
                 ELSE IF tag.v # 1
                      THEN UnpackRet(Err("only lz4 compression is supported"))
                 ELSE [kind |-> "lz4", res |-> NoResult,
                       src |-> sliced_data(data, tag.pos)]

-----------------------------------------------------------------------------
(* unpack_data: the LZ4 retry loop (main.rs:144-164).                      *)

LZ4_CAP == 2 ^ 27

initial_size(len) == len * 3

\* (size as f64 * 1.5) as usize: exact for the sizes reached here (< 2^53)
grow(size) == (size * 3) \div 2

over_cap(size) == size > LZ4_CAP

\* lz4::block::decompress_to_buffer on a block made of one literal run:
\* a token byte 16*n (n < 15) followed by n literals.  Any other input is
\* reported as invalid data; an output that does not fit the buffer is the
\* buffer-too-small signal (ErrorKind::InvalidInput).
lz4_literals(src) ==
    IF Len(src) >= 1 /\ src[1] % 16 = 0 /\ src[1] \div 16 < 15
       /\ Len(src) = 1 + src[1] \div 16
    THEN Ok(SubSeq(src, 2, Len(src)))
    ELSE Err("InvalidData")

decompress_to_buffer(src, size) ==
    LET out == lz4_literals(src)
    IN  IF ~out.ok THEN out
        ELSE IF Len(out.val) > size THEN Err("InvalidInput")
        ELSE out

\* One pass of the loop body on codec outcome r: either the function
\* returns (kind "ret") or it retries with a new size (kind "retry").
lz4_step(size, r) ==
    IF r.ok THEN [kind |-> "ret", res |-> r, size |-> size]
    ELSE IF r.err = "InvalidInput"
         THEN IF over_cap(size)
              THEN [kind |-> "ret", res |-> Err("lz4 decompress failed"), size |-> size]
              ELSE [kind |-> "retry", res |-> NoResult, size |-> grow(size)]
    ELSE [kind |-> "ret", res |-> Err("lz4 decompress"), size |-> size]

RECURSIVE lz4_loop(_, _)
lz4_loop(src, size) ==
    LET st == lz4_step(size, decompress_to_buffer(src, size))
    IN  IF st.kind = "ret" THEN st.res ELSE lz4_loop(src, st.size)

unpack_data(data) ==
    LET h == unpack_header(data)
    IN  IF h.kind = "ret" THEN h.res
        ELSE lz4_loop(h.src, initial_size(Len(h.src)))

-----------------------------------------------------------------------------
(* Segment files: framing (main.rs:312-376).  A BufReader<File> is the     *)
(* file's bytes and a read position.                                       *)

BORG_SEG == <<66, 79, 82, 71, 95, 83, 69, 71>>

KEY_LEN == 32

PUT_HEADER == 4 + 4 + 1 + KEY_LEN

Id(b) == [i \in 1..KEY_LEN |-> b]

u32_le(n) ==
    <<n % 256, (n \div 256) % 256, (n \div 65536) % 256, (n \div 16777216) % 256>>

\* read_exact(n): the next n bytes, or UnexpectedEof when fewer remain
read_exact(bytes, pos, n) ==
    IF pos + n <= Len(bytes)
    THEN [ok |-> TRUE, v |-> SubSeq(bytes, pos + 1, pos + n), pos |-> pos + n]
    ELSE [ok |-> FALSE, v |-> <<>>, pos |-> pos]

read_u32_be(bytes, pos) ==
    LET r == read_exact(bytes, pos, 4)
    IN  IF r.ok
        THEN [ok |-> TRUE, pos |-> r.pos,
              v |-> r.v[4] + 256 * r.v[3] + 65536 * r.v[2] + 16777216 * r.v[1]]
        ELSE [ok |-> FALSE, pos |-> pos, v |-> 0]

read_u32_le(bytes, pos) ==
    LET r == read_exact(bytes, pos, 4)
    IN  IF r.ok
        THEN [ok |-> TRUE, pos |-> r.pos,
              v |-> r.v[1] + 256 * r.v[2] + 65536 * r.v[3] + 16777216 * r.v[4]]
        ELSE [ok |-> FALSE, pos |-> pos, v |-> 0]

Put(key, data) == [type |-> "Put", key |-> key, data |-> data]

Delete(key) == [type |-> "Delete", key |-> key, data |-> <<>>]

Commit == [type |-> "Commit", key |-> <<>>, data |-> <<>>]

EntryOk(e, pos) == [kind |-> "entry", entry |-> e, pos |-> pos, err |-> ""]

EntryEnd(pos) == [kind |-> "end", entry |-> Commit, pos |-> pos, err |-> ""]

EntryErrAsEnd(e, pos) == [kind |-> "end", entry |-> Commit, pos |-> pos, err |-> ""]

EntryErr(e, pos) == [kind |-> "err", entry |-> Commit, pos |-> pos, err |-> e]

\* (size - 41) as usize, size being a u32.  With size < 41 the subtraction
\* overflows: a panic in a build with overflow checks; without them the
\* difference wraps to 2^32 + (size - 41), kept here as the negative n.
data_len(size, overflow_checks) ==
    IF size >= PUT_HEADER THEN [kind |-> "len", n |-> size - PUT_HEADER]
    ELSE IF overflow_checks THEN [kind |-> "panic", n |-> 0]
    ELSE [kind |-> "wrapped", n |-> size - PUT_HEADER]

\* read_exact of a payload of wrapped length: almost 2^32 bytes, more than
\* the modelled bytes of any file.  It succeeds only on a file with a long
\* tail, whose modelled bytes are followed by as many bytes (their values
\* not modelled) as fill that payload; v is then the modelled start of the
\* payload and the read ends at the end of the file.
read_wrapped(bytes, pos, long_tail) ==
    IF long_tail
    THEN [ok |-> TRUE, v |-> SubSeq(bytes, pos + 1, Len(bytes)), pos |-> Len(bytes)]
    ELSE [ok |-> FALSE, v |-> <<>>, pos |-> pos]

\* OpenSegment::next_log_entry on the file bytes from position pos.
\* overflow_checks is the build's setting for arithmetic overflow.
next_log_entry(bytes, pos, long_tail, overflow_checks) ==
    LET crc == read_u32_le(bytes, pos)
    IN  IF ~crc.ok THEN EntryEnd(pos)
        ELSE LET size == read_u32_le(bytes, crc.pos)
             IN  IF ~size.ok THEN EntryErr("UnexpectedEof", pos)
        ELSE LET tag == read_u8(bytes, size.pos)
             IN  IF ~tag.ok THEN EntryErr("UnexpectedEof", pos)
        ELSE IF tag.v = 0
             THEN LET key == read_exact(bytes, tag.pos, KEY_LEN)
                      len == data_len(size.v, overflow_checks)
                      data == IF len.kind = "wrapped"
                              THEN read_wrapped(bytes, key.pos, long_tail)
                              ELSE read_exact(bytes, key.pos, len.n)
                  IN  IF ~key.ok THEN EntryErr("UnexpectedEof", pos)
                      ELSE IF len.kind = "panic"
                           THEN EntryErr("panic: attempt to subtract with overflow", pos)
                      ELSE IF ~data.ok THEN EntryErr("UnexpectedEof", pos)
                      ELSE EntryOk(Put(key.v, data.v), data.pos)
        ELSE IF tag.v = 1
             THEN LET key == read_exact(bytes, tag.pos, KEY_LEN)
                  IN  IF ~key.ok THEN EntryErr("UnexpectedEof", pos)
                      ELSE EntryOk(Delete(key.v), key.pos)
        ELSE IF tag.v = 2 THEN EntryOk(Commit, tag.pos)
        ELSE EntryErr("unknown log entry tag", pos)

segment_open_any_magic(bytes) ==
    LET buf == read_exact(bytes, 0, 8)
    IN  IF ~buf.ok THEN [ok |-> FALSE, pos |-> 0, err |-> "failed 8 byte read"]
        ELSE [ok |-> TRUE, pos |-> buf.pos, err |-> ""]

\* Segment::open: the position after the magic, or an error
segment_open(bytes) ==
    LET buf == read_exact(bytes, 0, 8)
    IN  IF ~buf.ok THEN [ok |-> FALSE, pos |-> 0, err |-> "failed 8 byte read"]
        ELSE IF buf.v # BORG_SEG
             THEN [ok |-> FALSE, pos |-> 0,
                   err |-> "segment does not contain BORG_SEG magic number"]
        ELSE [ok |-> TRUE, pos |-> buf.pos, err |-> ""]

\* What a writer of the format puts on disk for one entry (crc left 0: the
\* reader does not verify it).
encode_entry(e) ==
    IF e.type = "Put"
    THEN u32_le(0) \o u32_le(PUT_HEADER + Len(e.data)) \o <<0>> \o e.key \o e.data
    ELSE IF e.type = "Delete"
    THEN u32_le(0) \o u32_le(PUT_HEADER) \o <<1>> \o e.key
    ELSE u32_le(0) \o u32_le(9) \o <<2>>

RECURSIVE encode_entries(_)
encode_entries(es) ==
    IF es = <<>> THEN <<>> ELSE encode_entry(Head(es)) \o encode_entries(Tail(es))

encode_segment(es) == BORG_SEG \o encode_entries(es)

-----------------------------------------------------------------------------
(* Repository::segments (main.rs:167-173, 489-524).  A file name is a       *)
(* sequence of characters.                                                 *)

Digits == {"0", "1", "2", "3", "4", "5", "6", "7", "8", "9"}

digit_value(c) ==
    CASE c = "0" -> 0 [] c = "1" -> 1 [] c = "2" -> 2 [] c = "3" -> 3 [] c = "4" -> 4
      [] c = "5" -> 5 [] c = "6" -> 6 [] c = "7" -> 7 [] c = "8" -> 8 [] OTHER -> 9

RECURSIVE decimal(_)
decimal(name) ==
    IF name = <<>> THEN 0
    ELSE 10 * decimal(SubSeq(name, 1, Len(name) - 1)) + digit_value(name[Len(name)])

\* number(): Some(n) as [some |-> TRUE, n |-> n], None otherwise
number(name) ==
    IF name # <<>> /\ \A i \in DOMAIN name : name[i] \in Digits
    THEN [some |-> TRUE, n |-> decimal(name)]
    ELSE [some |-> FALSE, n |-> 0]

\* the orders in which read_dir may yield the entries of a directory
Orderings(S) ==
    {f \in [1..Cardinality(S) -> S] : \A i, j \in 1..Cardinality(S) : f[i] = f[j] => i = j}

\* Vec::sort_by on a numeric key is a stable sort
RECURSIVE stable_insert(_, _)
stable_insert(x, sorted) ==
    IF sorted = <<>> THEN <<x>>
    ELSE IF x.key < Head(sorted).key THEN <<x>> \o sorted
    ELSE <<Head(sorted)>> \o stable_insert(x, Tail(sorted))

RECURSIVE sort_by_key(_)
sort_by_key(s) ==
    IF s = <<>> THEN <<>>
    ELSE stable_insert(s[Len(s)], sort_by_key(SubSeq(s, 1, Len(s) - 1)))

NoSort(s) == s

sort_segments_by_id(s) == sort_by_key(s)

\* the loop over read_dir(data): directories with a numeric name
RECURSIVE collect_dirs(_)
collect_dirs(listing) ==
    IF listing = <<>> THEN <<>>
    ELSE LET e == Head(listing)
             rest == collect_dirs(Tail(listing))
         IN  IF ~e.is_dir THEN rest
             ELSE IF number(e.name).some
                  THEN <<[key |-> number(e.name).n, dir |-> e]>> \o rest
             ELSE rest

\* the loop over read_dir(dir): entries with a numeric name become Segments
RECURSIVE collect_files(_, _)
collect_files(d, listing) ==
    IF listing = <<>> THEN <<>>
    ELSE LET f == Head(listing)
             rest == collect_files(d, Tail(listing))
         IN  IF number(f.name).some
             THEN <<[key |-> number(f.name).n, dir |-> d.name, name |-> f.name,
                     bytes |-> f.bytes, long_tail |-> f.long_tail]>> \o rest
             ELSE rest

RECURSIVE collect_segments(_, _)
collect_segments(dirs, file_order) ==
    IF dirs = <<>> THEN <<>>
    ELSE collect_files(Head(dirs).dir, file_order[Head(dirs).dir])
             \o collect_segments(Tail(dirs), file_order)

\* segments(), given the order read_dir yields data's entries (top_order) and
\* each directory's entries (file_order).  A Segment's id is its field key.
segments_of(top_order, file_order) ==
    sort_segments_by_id(collect_segments(sort_by_key(collect_dirs(top_order)), file_order))

FileOrders(data) ==
    {fo \in [data -> UNION {Orderings(e.files) : e \in data}] :
        \A e \in data : fo[e] \in Orderings(e.files)}

-----------------------------------------------------------------------------
(* extract: the replay of the segments into the store (main.rs:33-54).     *)

store_insert(store, key, data) ==
    [k \in DOMAIN store \cup {key} |-> IF k = key THEN data ELSE store[k]]

store_keep(store, key) == store

store_remove(store, key) == [k \in DOMAIN store \ {key} |-> store[k]]

apply_entry_commit_clears(store, e) ==
    IF e.type = "Put" THEN store_insert(store, e.key, e.data)
    ELSE IF e.type = "Delete" THEN store_remove(store, e.key)
    ELSE EmptyStore

apply_entry(store, e) ==
    IF e.type = "Put" THEN store_insert(store, e.key, e.data)
    ELSE IF e.type = "Delete" THEN store_remove(store, e.key)
    ELSE store

\* Repository::load, then repository.segments()
LoadRepository ==
    /\ pc = "start"
    /\ IF ~has_config
       THEN pc' = "err" /\ error' = "read config file" /\ segments' = segments
       ELSE /\ pc' = "replay"
            /\ error' = error
            /\ \E top_order \in Orderings(fs_data), file_order \in FileOrders(fs_data) :
                  segments' = segments_of(top_order, file_order)
    /\ UNCHANGED <<open_seg, items, replayed, yielded, repo_vars, u_vars, walk_vars, run_vars>>

\* segment.open()
OpenNextSegment ==
    /\ pc = "replay"
    /\ ~open_seg.open
    /\ segments # <<>>
    /\ LET o == segment_open(Head(segments).bytes)
       IN  IF o.ok
           THEN /\ open_seg' = [open |-> TRUE, bytes |-> Head(segments).bytes,
                                 pos |-> o.pos, long_tail |-> Head(segments).long_tail]
                /\ UNCHANGED <<pc, error>>
           ELSE /\ open_seg' = open_seg
                /\ pc' = "err"
                /\ error' = o.err
    /\ UNCHANGED <<segments, items, replayed, yielded, repo_vars, u_vars, walk_vars, run_vars>>

\* one iteration of `for entry in segment.open()?`
ReplayEntry ==
    /\ pc = "replay"
    /\ open_seg.open
    /\ \E overflow_checks \in BOOLEAN :
          LET r == next_log_entry(open_seg.bytes, open_seg.pos, open_seg.long_tail,
                                  overflow_checks)
          IN  IF r.kind = "entry"
              THEN /\ items' = apply_entry(items, r.entry)
                   /\ open_seg' = [open_seg EXCEPT !.pos = r.pos]
                   /\ replayed' = replayed + 1
                   /\ yielded' = Append(yielded, r.entry)
                   /\ UNCHANGED <<pc, segments, error>>
              ELSE IF r.kind = "end"
              THEN /\ open_seg' = NoSegment
                   /\ segments' = Tail(segments)
                   /\ UNCHANGED <<pc, items, replayed, yielded, error>>
              ELSE /\ pc' = "err"
                   /\ error' = r.err
                   /\ open_seg' = NoSegment
                   /\ UNCHANGED <<segments, items, replayed, yielded>>
    /\ UNCHANGED <<repo_vars, u_vars, walk_vars, run_vars>>

\* the loop over the segments ends
ReplayDone ==
    /\ pc = "replay"
    /\ ~open_seg.open
    /\ segments = <<>>
    /\ pc' = "manifest"
    /\ UNCHANGED <<segments, open_seg, items, replayed, yielded, error, repo_vars, u_vars,
                   walk_vars, run_vars>>

-----------------------------------------------------------------------------
(* The MessagePack value stream read by rmp_serde (main.rs:59-78): the     *)
(* markers Borg's objects are made of.  A decoded value is a node          *)
(* [t, n, b, c]: its type, its number, its bytes, its children (a map's    *)
(* children are its keys and values in turn).                              *)

Node(t, n, b, c) == [t |-> t, n |-> n, b |-> b, c |-> c]

MpNil == Node("nil", 0, <<>>, <<>>)

MpOk(node, pos) == [ok |-> TRUE, node |-> node, pos |-> pos]

MpErr(pos) == [ok |-> FALSE, node |-> MpNil, pos |-> pos]

RECURSIVE mp_parse(_, _), mp_parse_n(_, _, _)
mp_parse(bytes, pos) ==
    IF pos >= Len(bytes) THEN MpErr(pos)
    ELSE LET m == bytes[pos + 1]
         IN  IF m < 128 THEN MpOk(Node("int", m, <<>>, <<>>), pos + 1)
             ELSE IF m < 144
                  THEN LET r == mp_parse_n(bytes, pos + 1, 2 * (m - 128))
                       IN  IF r.ok THEN MpOk(Node("map", 0, <<>>, r.nodes), r.pos)
                           ELSE MpErr(pos)
             ELSE IF m < 160
                  THEN LET r == mp_parse_n(bytes, pos + 1, m - 144)
                       IN  IF r.ok THEN MpOk(Node("arr", 0, <<>>, r.nodes), r.pos)
                           ELSE MpErr(pos)
             ELSE IF m < 192
                  THEN LET d == read_exact(bytes, pos + 1, m - 160)
                       IN  IF d.ok THEN MpOk(Node("str", 0, d.v, <<>>), d.pos)
                           ELSE MpErr(pos)
             ELSE IF m = 192 THEN MpOk(MpNil, pos + 1)
             ELSE IF m = 196
                  THEN LET l == read_u8(bytes, pos + 1)
                           d == read_exact(bytes, l.pos, l.v)
                       IN  IF l.ok /\ d.ok THEN MpOk(Node("bin", 0, d.v, <<>>), d.pos)
                           ELSE MpErr(pos)
             ELSE MpErr(pos)

mp_parse_n(bytes, pos, count) ==
    IF count = 0 THEN [ok |-> TRUE, nodes |-> <<>>, pos |-> pos]
    ELSE LET h == mp_parse(bytes, pos)
         IN  IF ~h.ok THEN [ok |-> FALSE, nodes |-> <<>>, pos |-> pos]
             ELSE LET t == mp_parse_n(bytes, h.pos, count - 1)
                  IN  IF ~t.ok THEN [ok |-> FALSE, nodes |-> <<>>, pos |-> pos]
                      ELSE [ok |-> TRUE, nodes |-> <<h.node>> \o t.nodes, pos |-> t.pos]

\* the writer's side of the same markers
enc_int(n) == <<n>>

enc_str(b) == <<160 + Len(b)>> \o b

enc_bin(b) == <<196, Len(b)>> \o b

RECURSIVE concat(_)
concat(ss) == IF ss = <<>> THEN <<>> ELSE Head(ss) \o concat(Tail(ss))

enc_arr(elems) == <<144 + Len(elems)>> \o concat(elems)

\* pairs: a sequence of <<encoded key, encoded value>>
enc_map(pairs) == <<128 + Len(pairs)>> \o concat([i \in DOMAIN pairs |-> pairs[i][1] \o pairs[i][2]])

\* text as bytes
Letters == <<"a", "b", "c", "d", "e", "f", "g", "h", "i", "j", "k", "l", "m",
             "n", "o", "p", "q", "r", "s", "t", "u", "v", "w", "x", "y", "z">>

ascii(ch) ==
    IF ch = "/" THEN 47 ELSE IF ch = "_" THEN 95 ELSE IF ch = "." THEN 46
    ELSE 96 + CHOOSE i \in DOMAIN Letters : Letters[i] = ch

text(chars) == [i \in DOMAIN chars |-> ascii(chars[i])]

\* ASCII only: every byte below 128 is valid UTF-8, a sequence holding a
\* byte from 128 up is taken as invalid
is_utf8(b) == \A i \in DOMAIN b : b[i] < 128

-----------------------------------------------------------------------------
(* The typed decoders: serde's derived Deserialize of the structs of       *)
(* main.rs:190-251 and msgpack.rs:177-223, driven by rmp_serde.            *)

\* String: a str, or a bin, holding valid UTF-8
de_string(node) ==
    IF node.t \in {"str", "bin"} /\ is_utf8(node.b) THEN Ok(node.b) ELSE Err("invalid type")

\* msgpack::Bytes: BytesVisitor takes byte buffers of any length; rmp_serde
\* also hands a str that is not valid UTF-8 to visit_bytes
de_bytes(node) ==
    IF node.t = "bin" \/ (node.t = "str" /\ ~is_utf8(node.b))
    THEN Ok(node.b) ELSE Err("invalid type")

de_u8(node) == IF node.t = "int" /\ node.n <= 255 THEN Ok(node.n) ELSE Err("invalid type")

\* msgpack::PythonValue: ValueVisitor has no visit_map, visit_bool or visit_unit
de_python_value(node) ==
    IF node.t \in {"int", "str", "bin", "arr"} THEN Ok(node) ELSE Err("invalid type")

map_len(node) == Len(node.c) \div 2

map_key(node, i) == node.c[2 * i - 1]

map_val(node, i) == node.c[2 * i]

field_at(node, name) ==
    {i \in 1..map_len(node) :
        map_key(node, i).t \in {"str", "bin"} /\ map_key(node, i).b = name}

\* a field without #[serde(default)]: present exactly once
has_field(node, name) == Cardinality(field_at(node, name)) = 1

field(node, name) == map_val(node, CHOOSE i \in field_at(node, name) : TRUE)

is_vec_of_string(node) ==
    node.t = "arr" /\ \A i \in DOMAIN node.c : de_string(node.c[i]).ok

is_map_of_string(node) ==
    /\ node.t = "map"
    /\ \A i \in 1..map_len(node) :
          de_string(map_key(node, i)).ok /\ de_string(map_val(node, i)).ok

F_type == text(<<"t", "y", "p", "e">>)

\* struct Tam: type, and a flattened HashMap<String, Bytes>
is_tam(node) ==
    /\ node.t = "map"
    /\ has_field(node, F_type)
    /\ de_string(field(node, F_type)).ok
    /\ \A i \in 1..map_len(node) :
          \/ i \in field_at(node, F_type)
          \/ de_string(map_key(node, i)).ok /\ de_bytes(map_val(node, i)).ok

F_id == text(<<"i", "d">>)

F_time == text(<<"t", "i", "m", "e">>)

\* struct ManifestArchive
is_manifest_archive(node) ==
    /\ node.t = "map"
    /\ has_field(node, F_id) /\ de_bytes(field(node, F_id)).ok
    /\ has_field(node, F_time) /\ de_string(field(node, F_time)).ok

F_version == text(<<"v", "e", "r", "s", "i", "o", "n">>)

F_timestamp == text(<<"t", "i", "m", "e", "s", "t", "a", "m", "p">>)

F_item_keys == text(<<"i", "t", "e", "m", "_", "k", "e", "y", "s">>)

F_config == text(<<"c", "o", "n", "f", "i", "g">>)

F_archives == text(<<"a", "r", "c", "h", "i", "v", "e", "s">>)

F_tam == text(<<"t", "a", "m">>)

\* HashMap<String, ManifestArchive>: the entries as a set of [name, id]; of
\* two entries with one name the later one stays
archives_of(node) ==
    {[name |-> map_key(node, i).b, id |-> field(map_val(node, i), F_id).b] :
        i \in {j \in 1..map_len(node) :
                  \A k \in 1..map_len(node) :
                      k > j => map_key(node, k).b # map_key(node, j).b}}

\* struct Manifest
de_manifest(node) ==
    IF /\ node.t = "map"
       /\ has_field(node, F_version) /\ de_u8(field(node, F_version)).ok
       /\ has_field(node, F_timestamp) /\ de_string(field(node, F_timestamp)).ok
       /\ has_field(node, F_item_keys) /\ is_vec_of_string(field(node, F_item_keys))
       /\ has_field(node, F_config) /\ is_map_of_string(field(node, F_config))
       /\ has_field(node, F_archives)
       /\ field(node, F_archives).t = "map"
       /\ \A i \in 1..map_len(field(node, F_archives)) :
             /\ de_string(map_key(field(node, F_archives), i)).ok
             /\ is_manifest_archive(map_val(field(node, F_archives), i))
       /\ has_field(node, F_tam) /\ is_tam(field(node, F_tam))
    THEN Ok(archives_of(field(node, F_archives)))
    ELSE Err("decode manifest msgpack")

F_name == text(<<"n", "a", "m", "e">>)

F_items == text(<<"i", "t", "e", "m", "s">>)

F_cmdline == text(<<"c", "m", "d", "l", "i", "n", "e">>)

F_hostname == text(<<"h", "o", "s", "t", "n", "a", "m", "e">>)

F_username == text(<<"u", "s", "e", "r", "n", "a", "m", "e">>)

F_time_end == text(<<"t", "i", "m", "e", "_", "e", "n", "d">>)

F_comment == text(<<"c", "o", "m", "m", "e", "n", "t">>)

\* struct Archive: the value is its items, a Vec<Bytes>
de_archive(node) ==
    IF /\ node.t = "map"
       /\ has_field(node, F_version) /\ de_u8(field(node, F_version)).ok
       /\ \A f \in {F_name, F_hostname, F_username, F_time, F_time_end, F_comment} :
             has_field(node, f) /\ de_string(field(node, f)).ok
       /\ has_field(node, F_cmdline) /\ is_vec_of_string(field(node, F_cmdline))
       /\ has_field(node, F_items)
       /\ field(node, F_items).t = "arr"
       /\ \A i \in DOMAIN field(node, F_items).c : de_bytes(field(node, F_items).c[i]).ok
    THEN Ok([i \in DOMAIN field(node, F_items).c |-> field(node, F_items).c[i].b])
    ELSE Err("decode archive msgpack")

F_path == text(<<"p", "a", "t", "h">>)

F_chunks == text(<<"c", "h", "u", "n", "k", "s">>)

\* (Bytes, PythonValue, PythonValue)
is_chunk_tuple(node) ==
    /\ node.t = "arr"
    /\ Len(node.c) = 3
    /\ de_bytes(node.c[1]).ok
    /\ de_python_value(node.c[2]).ok
    /\ de_python_value(node.c[3]).ok

\* struct ItemMetadata: path, and chunks with #[serde(default)]; the value
\* is [path, chunks], chunks being the ids of the tuples
de_item_metadata(node) ==
    IF /\ node.t = "map"
       /\ has_field(node, F_path) /\ de_string(field(node, F_path)).ok
       /\ Cardinality(field_at(node, F_chunks)) <= 1
       /\ has_field(node, F_chunks) =>
             /\ field(node, F_chunks).t = "arr"
             /\ \A i \in DOMAIN field(node, F_chunks).c :
                   is_chunk_tuple(field(node, F_chunks).c[i])
    THEN Ok([path |-> field(node, F_path).b,
             chunks |-> IF has_field(node, F_chunks)
                        THEN [i \in DOMAIN field(node, F_chunks).c |->
                                 field(node, F_chunks).c[i].c[1].b]
                        ELSE <<>>])
    ELSE Err("decode item msgpack")

\* rmp_serde::from_slice / from_read: one value from position pos of data,
\* decoded by de; the value and the position after it
from_read_manifest(data, pos) ==
    LET r == mp_parse(data, pos)
    IN  IF r.ok THEN de_manifest(r.node) ELSE Err("decode manifest msgpack")

from_read_archive(data, pos) ==
    LET r == mp_parse(data, pos)
    IN  IF r.ok THEN de_archive(r.node) ELSE Err("decode archive msgpack")

from_read_item_metadata(data, pos) ==
    LET r == mp_parse(data, pos)
        d == de_item_metadata(r.node)
    IN  IF r.ok /\ d.ok THEN [ok |-> TRUE, val |-> d.val, pos |-> r.pos, err |-> ""]
        ELSE [ok |-> FALSE, val |-> [path |-> <<>>, chunks |-> <<>>], pos |-> pos,
              err |-> "decode item msgpack"]

\* what Borg writes
enc_manifest(entries) ==
    enc_map(<<<<enc_str(F_version), enc_int(1)>>,
              <<enc_str(F_timestamp), enc_str(<<>>)>>,
              <<enc_str(F_item_keys), enc_arr(<<enc_str(F_path)>>)>>,
              <<enc_str(F_config), enc_map(<<>>)>>,
              <<enc_str(F_archives),
                enc_map([i \in DOMAIN entries |->
                    <<enc_str(entries[i].name),
                      enc_map(<<<<enc_str(F_id), enc_bin(entries[i].id)>>,
                                <<enc_str(F_time), enc_str(<<>>)>>>>)>>])>>,
              <<enc_str(F_tam), enc_map(<<<<enc_str(F_type), enc_str(<<>>)>>>>)>>>>)

enc_archive(name, ids) ==
    enc_map(<<<<enc_str(F_version), enc_int(1)>>,
              <<enc_str(F_name), enc_str(name)>>,
              <<enc_str(F_items), enc_arr([i \in DOMAIN ids |-> enc_bin(ids[i])])>>,
              <<enc_str(F_cmdline), enc_arr(<<>>)>>,
              <<enc_str(F_hostname), enc_str(<<>>)>>,
              <<enc_str(F_username), enc_str(<<>>)>>,
              <<enc_str(F_time), enc_str(<<>>)>>,
              <<enc_str(F_time_end), enc_str(<<>>)>>,
              <<enc_str(F_comment), enc_str(<<>>)>>>>)

enc_item(path, chunk_ids) ==
    enc_map(<<<<enc_str(F_path), enc_str(path)>>,
              <<enc_str(F_chunks),
                enc_arr([i \in DOMAIN chunk_ids |->
                    enc_arr(<<enc_bin(chunk_ids[i]), enc_int(1), enc_int(1)>>)])>>>>)

\* an item record without the chunks key
enc_item_no_chunks(path) == enc_map(<<<<enc_str(F_path), enc_str(path)>>>>)

\* the envelope of a stored blob
envelope(enc_tag, compression_tag, payload) ==
    <<enc_tag, compression_tag % 256, compression_tag \div 256>> \o payload

\* an LZ4 block holding payload as one literal run (fewer than 15 bytes)
lz4_block(payload) == <<16 * Len(payload)>> \o payload

-----------------------------------------------------------------------------
(* extract: the walk from the manifest to the output files                 *)
(* (main.rs:56-110).                                                       *)

MANIFEST_ID == Id(0)

\* HashMap::get
store_get(store, key) ==
    IF key \in DOMAIN store THEN [some |-> TRUE, val |-> store[key]]
    ELSE [some |-> FALSE, val |-> <<>>]

get_archive_by_name(store, a) == store_get(store, a.name)

\* items.get(&manifest_archive.id.0)
get_archive(store, a) == store_get(store, a.id)

RECURSIVE replace_first_slash(_)
replace_first_slash(path) ==
    IF path = <<>> THEN <<>>
    ELSE IF Head(path) = 47 THEN <<95, 95>> \o Tail(path)
    ELSE <<Head(path)>> \o replace_first_slash(Tail(path))

\* str::replace("/", "__")
RECURSIVE replace_slash(_)
replace_slash(path) ==
    IF path = <<>> THEN <<>>
    ELSE (IF Head(path) = 47 THEN <<95, 95>> ELSE <<Head(path)>>) \o replace_slash(Tail(path))

\* the names under which example/extracted/<name> cannot be created as a
\* file: the directory itself, "." and ".."
NotAFileName == {<<>>, <<46>>, <<46, 46>>}

\* std::fs::write: create or truncate the file, then write data
fs_write(files, name, data) ==
    [f \in DOMAIN files \cup {name} |-> IF f = name THEN data ELSE files[f]]

\* cursor_has_data: position < len - 1 in usize.  With len = 0 the
\* subtraction overflows: a panic with overflow checks, else len - 1 wraps
\* to the largest usize and the comparison is true.
cursor_has_data(c, overflow_checks) ==
    IF Len(c.data) = 0
    THEN IF overflow_checks THEN "panic" ELSE "more"
    ELSE IF c.pos < Len(c.data) - 1 THEN "more" ELSE "done"

Fail(e) == pc' = "err" /\ error' = e

\* items.get(MANIFEST_ID), unpack_data, the decoding of the manifest; the
\* HashMap of archives is then iterated in an order of its own
ReadManifest ==
    /\ pc = "manifest"
    /\ LET g == store_get(items, MANIFEST_ID)
           data == unpack_data(g.val)
           manifest == from_read_manifest(data.val, 0)
       IN  IF ~g.some
           THEN pc' = "done" /\ UNCHANGED <<error, archives, seen>>
           ELSE /\ seen' = seen \cup {MANIFEST_ID}
                /\ IF ~data.ok THEN Fail(data.err) /\ UNCHANGED archives
                   ELSE IF ~manifest.ok THEN Fail(manifest.err) /\ UNCHANGED archives
                   ELSE /\ pc' = "archives"
                        /\ archives' \in Orderings(manifest.val)
                        /\ UNCHANGED error
    /\ UNCHANGED <<segments, open_seg, items, replayed, yielded, item_ids, cursor, item,
                   out_files, decoded, repo_vars, u_vars, run_vars>>

\* one iteration of `for (_, manifest_archive) in manifest.archives`, up to
\* the loop over the archive's items; or the end of the loop
NextArchive ==
    /\ pc = "archives"
    /\ IF archives = <<>>
       THEN pc' = "done" /\ UNCHANGED <<error, archives, item_ids, seen>>
       ELSE LET g == get_archive(items, Head(archives))
                data == unpack_data(g.val)
                archive == from_read_archive(data.val, 0)
            IN  /\ archives' = Tail(archives)
                /\ IF ~g.some THEN UNCHANGED <<pc, error, item_ids, seen>>
                   ELSE /\ seen' = seen \cup {Head(archives).id}
                        /\ IF ~data.ok THEN Fail(data.err) /\ UNCHANGED item_ids
                           ELSE IF ~archive.ok THEN Fail(archive.err) /\ UNCHANGED item_ids
                           ELSE /\ pc' = "items"
                                /\ item_ids' = archive.val
                                /\ UNCHANGED error
    /\ UNCHANGED <<segments, open_seg, items, replayed, yielded, cursor, item, out_files,
                   decoded, repo_vars, u_vars, run_vars>>

\* one iteration of `for item_id in &archive.items`, up to the cursor loop;
\* or the end of the loop
NextItemBlob ==
    /\ pc = "items"
    /\ IF item_ids = <<>>
       THEN pc' = "archives" /\ UNCHANGED <<error, item_ids, cursor, seen>>
       ELSE LET g == store_get(items, Head(item_ids))
                data == unpack_data(g.val)
            IN  /\ item_ids' = Tail(item_ids)
                /\ IF ~g.some THEN UNCHANGED <<pc, error, cursor, seen>>
                   ELSE /\ seen' = seen \cup {Head(item_ids)}
                        /\ IF ~data.ok THEN Fail(data.err) /\ UNCHANGED cursor
                           ELSE /\ pc' = "cursor"
                                /\ cursor' = [data |-> data.val, pos |-> 0]
                                /\ UNCHANGED error
    /\ UNCHANGED <<segments, open_seg, items, replayed, yielded, archives, item, out_files,
                   decoded, repo_vars, u_vars, run_vars>>

\* one test of `while cursor_has_data(&cursor)` and the decoding of one
\* ItemMetadata, up to the loop over its chunks
DecodeItem ==
    /\ pc = "cursor"
    /\ \E overflow_checks \in BOOLEAN :
          LET more == cursor_has_data(cursor, overflow_checks)
              md == from_read_item_metadata(cursor.data, cursor.pos)
          IN  IF more = "panic"
              THEN Fail("panic: attempt to subtract with overflow")
                      /\ UNCHANGED <<cursor, item, decoded>>
              ELSE IF more = "done"
              THEN pc' = "items" /\ UNCHANGED <<error, cursor, item, decoded>>
              ELSE IF ~md.ok THEN Fail(md.err) /\ UNCHANGED <<cursor, item, decoded>>
              ELSE /\ pc' = "chunks"
                   /\ cursor' = [cursor EXCEPT !.pos = md.pos]
                   /\ item' = [path |-> md.val.path,
                               subbed_path |-> replace_slash(md.val.path),
                               chunks |-> md.val.chunks]
                   /\ decoded' = Append(decoded, item')
                   /\ UNCHANGED error
    /\ UNCHANGED <<segments, open_seg, items, replayed, yielded, archives, item_ids, out_files,
                   seen, repo_vars, u_vars, run_vars>>

\* one iteration of `for (id, _, _) in &item_metadata.chunks`; or its end
WriteChunk ==
    /\ pc = "chunks"
    /\ IF item.chunks = <<>>
       THEN pc' = "cursor" /\ UNCHANGED <<error, item, out_files, seen>>
       ELSE LET g == store_get(items, Head(item.chunks))
                data == unpack_data(g.val)
            IN  /\ item' = [item EXCEPT !.chunks = Tail(item.chunks)]
                /\ IF ~g.some THEN UNCHANGED <<pc, error, out_files, seen>>
                   ELSE /\ seen' = seen \cup {Head(item.chunks)}
                        /\ IF ~data.ok THEN Fail(data.err) /\ UNCHANGED out_files
                           ELSE IF item.subbed_path \in NotAFileName
                           THEN Fail("Is a directory") /\ UNCHANGED out_files
                           ELSE /\ out_files' = fs_write(out_files, item.subbed_path, data.val)
                                /\ UNCHANGED <<pc, error>>
    /\ UNCHANGED <<segments, open_seg, items, replayed, yielded, archives, item_ids, cursor,
                   decoded, repo_vars, u_vars, run_vars>>

\* the program is run once more on the same repository, into an empty
\* output directory
RunAgain ==
    /\ pc = "done"
    /\ run = 1
    /\ run' = 2
    /\ first_out' = out_files
    /\ pc' = "start"
    /\ segments' = <<>>
    /\ open_seg' = NoSegment
    /\ items' = EmptyStore
    /\ replayed' = 0
    /\ yielded' = <<>>
    /\ error' = ""
    /\ archives' = <<>>
    /\ item_ids' = <<>>
    /\ cursor' = NoCursor
    /\ item' = NoItem
    /\ out_files' = NoFiles
    /\ seen' = {}
    /\ decoded' = <<>>
    /\ UNCHANGED <<repo_vars, u_vars>>

-----------------------------------------------------------------------------
(* Repositories holding a manifest with two archives, each with one item   *)
(* blob of one item; the first item has up to MaxChunks chunks.  Up to     *)
(* MaxMissing objects are deleted again by the second segment, and one     *)
(* object may carry an unsupported encryption tag.                         *)

File(name, bytes) == [name |-> name, bytes |-> bytes, long_tail |-> FALSE]

\* a file of almost 2^32 bytes more than the modelled ones
LongFile(name, bytes) == [name |-> name, bytes |-> bytes, long_tail |-> TRUE]

Dir(name, files) == [name |-> name, is_dir |-> TRUE, files |-> files]

MaxChunks == 2

MaxMissing == 1

ArchiveA == Id(1)

ArchiveB == Id(2)

ItemsA == Id(3)

ItemsB == Id(4)

ChunkB == Id(5)

ChunksA(n) == [i \in 1..n |-> Id(5 + i)]

PathA == text(<<"d", "/", "f">>)

PathB == text(<<"g">>)

chunk_payload(id) == <<id[1], id[1] + 100>>

\* the objects of the repository as key -> payload
Objects(n, same_path) ==
    LET chunks == {ChunksA(n)[i] : i \in 1..n} \cup {ChunkB}
    IN  [k \in {MANIFEST_ID, ArchiveA, ArchiveB, ItemsA, ItemsB} \cup chunks |->
            IF k = MANIFEST_ID
            THEN enc_manifest(<<[name |-> text(<<"a">>), id |-> ArchiveA],
                                [name |-> text(<<"b">>), id |-> ArchiveB]>>)
            ELSE IF k = ArchiveA THEN enc_archive(text(<<"a">>), <<ItemsA>>)
            ELSE IF k = ArchiveB THEN enc_archive(text(<<"b">>), <<ItemsB>>)
            ELSE IF k = ItemsA THEN enc_item(PathA, ChunksA(n))
            ELSE IF k = ItemsB
                 THEN enc_item(IF same_path THEN PathA ELSE PathB, <<ChunkB>>)
            ELSE chunk_payload(k)]

NoKey == <<>>

CorruptChoices == {NoKey, MANIFEST_ID, ItemsA, ChunkB}

RECURSIVE SetToSeq(_)
SetToSeq(S) ==
    IF S = {} THEN <<>>
    ELSE LET x == CHOOSE y \in S : TRUE IN <<x>> \o SetToSeq(S \ {x})

\* the stored blob of object k: ChunkB is LZ4-compressed, the others are not;
\* the corrupt object carries encryption tag 3
blob_of(objects, k, corrupt) ==
    LET enc_tag == IF k = corrupt THEN 3 ELSE 2
    IN  IF k = ChunkB THEN envelope(enc_tag, 1, lz4_block(objects[k]))
        ELSE envelope(enc_tag, 0, objects[k])

PutsOf(objects, corrupt) ==
    LET keys == SetToSeq(DOMAIN objects)
    IN  [i \in DOMAIN keys |-> Put(keys[i], blob_of(objects, keys[i], corrupt))]

DeletesOf(missing) ==
    LET keys == SetToSeq(missing) IN [i \in DOMAIN keys |-> Delete(keys[i])]

Init ==
    /\ UnpackIdle
    /\ has_config \in BOOLEAN
    /\ \E n \in 1..MaxChunks, same_path \in BOOLEAN, corrupt \in CorruptChoices :
          \E missing \in SubsetsUpTo(DOMAIN Objects(n, same_path), MaxMissing) :
             LET first == PutsOf(Objects(n, same_path), corrupt) \o <<Commit>>
                 second == DeletesOf(missing) \o <<Commit>>
             IN  /\ log = first \o second
                 /\ fs_data = {Dir(<<"0">>, {File(<<"0">>, encode_segment(first)),
                                             File(<<"1">>, encode_segment(second))})}
    /\ damage = NoDamage
    /\ item_recs = <<>>
    /\ pc = "start"
    /\ ExtractEntry
    /\ run = 1
    /\ first_out = NoFiles

Next ==
    \/ LoadRepository
    \/ OpenNextSegment
    \/ ReplayEntry
    \/ ReplayDone
    \/ ReadManifest
    \/ NextArchive
    \/ NextItemBlob
    \/ DecodeItem
    \/ WriteChunk
    \/ RunAgain

Spec == Init /\ [][Next]_vars

-----------------------------------------------------------------------------
(* Claims about extract *)

Returned == pc = "done"

ItemBytes(d) == concat([i \in DOMAIN d.chunks |-> unpack_data(items[d.chunks[i]]).val])

ChunksPresent(d) ==
    \A i \in DOMAIN d.chunks :
        d.chunks[i] \in DOMAIN items /\ unpack_data(items[d.chunks[i]]).ok

\* no item decoded later is written to the same file
LastWriter(i) ==
    \A j \in DOMAIN decoded : j > i => decoded[j].subbed_path # decoded[i].subbed_path

\* C1: for every decoded item whose chunk ids are all in the store, when
\* extract has returned the item's output file holds the concatenation of the
\* unwrapped payloads of all its chunks, in list order.
C1_OutputIsConcatenation ==
    Returned =>
        \A i \in DOMAIN decoded :
            (Len(decoded[i].chunks) >= 1 /\ ChunksPresent(decoded[i]) /\ LastWriter(i)) =>
                /\ decoded[i].subbed_path \in DOMAIN out_files
                /\ out_files[decoded[i].subbed_path] = ItemBytes(decoded[i])

\* C4: two runs of extract on the same repository end with the same output
\* files, whatever order the archives are iterated in.
C4_SameOutputTwice ==
    (run = 2 /\ Returned) => out_files = first_out

\* C5: if the store has no entry for the manifest id after the replay,
\* extract does not return success.
C5_MissingManifestIsFatal ==
    Returned => MANIFEST_ID \in DOMAIN items

\* C6: if a chunk id of a decoded item is absent from the store, extract does
\* not return success.
C6_MissingChunkIsFatal ==
    Returned =>
        \A i \in DOMAIN decoded :
            \A j \in DOMAIN decoded[i].chunks : decoded[i].chunks[j] \in DOMAIN items

ManifestArchives == from_read_manifest(unpack_data(items[MANIFEST_ID]).val, 0).val

ArchiveItems(a) == from_read_archive(unpack_data(items[a.id]).val, 0).val

ItemPath(id) == from_read_item_metadata(unpack_data(items[id]).val, 0).val.path

\* C7: an archive id of the manifest, or an item id of an archive, that is
\* absent from the store is skipped without error: extract fails only for a
\* missing config or a blob it fetched and could not unwrap, and when it
\* returns it has fetched every archive that is present, and fetched and
\* decoded every item blob of those archives that is present.
C7_MissingIsSkipped ==
    /\ pc = "err" =>
          /\ error \in {"read config file", "only plaintext data is supported"}
          /\ ~has_config \/ \E k \in seen : ~unpack_data(items[k]).ok
    /\ (Returned /\ MANIFEST_ID \in DOMAIN items) =>
          \A a \in ManifestArchives :
              a.id \in DOMAIN items =>
                  /\ a.id \in seen
                  /\ \A i \in DOMAIN ArchiveItems(a) :
                        ArchiveItems(a)[i] \in DOMAIN items =>
                            /\ ArchiveItems(a)[i] \in seen
                            /\ \E j \in DOMAIN decoded :
                                  decoded[j].path = ItemPath(ArchiveItems(a)[i])

C7_Witness ==
    /\ Returned
    /\ MANIFEST_ID \in seen
    /\ ArchiveA \notin DOMAIN items
    /\ ItemsB \in seen
    /\ PathB \in DOMAIN out_files

-----------------------------------------------------------------------------
(* Replay of arbitrary logs, written to two segment files of one bucket.   *)

MaxLog == 3

LogKeys == {Id(1), Id(2)}

LogData == {<<7>>, <<8, 9>>}

LogEntries ==
    {Put(k, d) : k \in LogKeys, d \in LogData} \cup {Delete(k) : k \in LogKeys} \cup {Commit}

InitReplay ==
    /\ UnpackIdle
    /\ has_config = TRUE
    /\ log \in SeqsUpTo(LogEntries, MaxLog)
    /\ \E cut \in 0..Len(log) :
          fs_data = {Dir(<<"0">>,
                         {File(<<"0">>, encode_segment(SubSeq(log, 1, cut))),
                          File(<<"1">>, encode_segment(SubSeq(log, cut + 1, Len(log))))})}
    /\ damage = NoDamage
    /\ item_recs = <<>>
    /\ pc = "start"
    /\ ExtractEntry
    /\ run = 1
    /\ first_out = NoFiles

NextReplay == LoadRepository \/ OpenNextSegment \/ ReplayEntry \/ ReplayDone

SpecReplay == InitReplay /\ [][NextReplay]_vars

\* the position of the last Put of k in l, 0 when there is none
LastPut(l, k) ==
    LET ps == {i \in DOMAIN l : l[i].type = "Put" /\ l[i].key = k}
    IN  IF ps = {} THEN 0 ELSE CHOOSE i \in ps : \A j \in ps : j <= i

DeletedAfter(l, k, i) == \E j \in DOMAIN l : j > i /\ l[j].type = "Delete" /\ l[j].key = k

Applied == SubSeq(log, 1, replayed)

\* C2: after replaying any sequence of Put/Delete/Commit entries, the store
\* maps k to the data of the last Put{k,_} if no Delete{k} comes after that
\* Put, and k is absent otherwise (so a Delete of an absent key changes
\* nothing and a Put after a Delete makes the key present again).
C2_LastWriterWins ==
    pc \in {"replay", "manifest"} =>
        \A k \in LogKeys :
            LET i == LastPut(Applied, k)
            IN  IF i > 0 /\ ~DeletedAfter(Applied, k, i)
                THEN k \in DOMAIN items /\ items[k] = Applied[i].data
                ELSE k \notin DOMAIN items

C2_Witness ==
    /\ pc = "manifest"
    /\ log = <<Put(Id(1), <<7>>), Delete(Id(1)), Put(Id(1), <<8, 9>>)>>
    /\ items[Id(1)] = <<8, 9>>

-----------------------------------------------------------------------------
(* The listing of segments, over directory layouts with empty files.       *)

MaxDirs == 2

MaxFiles == 2

DirNames == {<<"0">>, <<"1">>, <<"x">>}

FileNames == {<<"0">>, <<"1">>, <<"0", "1">>, <<"y">>}

\* what may be found under one name in data/: nothing, a plain file, or a
\* directory holding up to MaxFiles files
Absent == [is_dir |-> FALSE, present |-> FALSE, files |-> {}]

NameOptions ==
    {Absent, [is_dir |-> FALSE, present |-> TRUE, files |-> {}]}
        \cup {[is_dir |-> TRUE, present |-> TRUE, files |-> {File(f, <<>>) : f \in fs}] :
                 fs \in SubsetsUpTo(FileNames, MaxFiles)}

Layouts ==
    {{[name |-> n, is_dir |-> o[n].is_dir, files |-> o[n].files] :
         n \in {m \in DirNames : o[m].present}} :
       o \in {c \in [DirNames -> NameOptions] :
                 Cardinality({m \in DirNames : c[m].present}) <= MaxDirs}}

InitSegments ==
    /\ UnpackIdle
    /\ has_config = TRUE
    /\ log = <<>>
    /\ damage = NoDamage
    /\ item_recs = <<>>
    /\ fs_data \in Layouts
    /\ pc = "start"
    /\ ExtractEntry
    /\ run = 1
    /\ first_out = NoFiles

NextSegments == LoadRepository

SpecSegments == InitSegments /\ [][NextSegments]_vars

dir_number(seg) == number(seg.dir).n

SegmentFilesOnDisk ==
    UNION {{<<d.name, f.name>> : f \in {g \in d.files : number(g.name).some}} :
              d \in {e \in fs_data : e.is_dir /\ number(e.name).some}}

Listed == {<<segments[i].dir, segments[i].name>> : i \in DOMAIN segments}

\* C3 as claimed: segments() returns the segments sorted by (directory number
\* ascending, file number ascending).
C3_SortedByDirThenFile ==
    pc = "replay" =>
        \A i, j \in DOMAIN segments :
            i < j =>
                \/ dir_number(segments[i]) < dir_number(segments[j])
                \/ /\ dir_number(segments[i]) = dir_number(segments[j])
                   /\ segments[i].key <= segments[j].key

\* C3 as amended: segments() returns every numeric file of every numeric
\* bucket directory exactly once, sorted by file number ascending across all
\* directories; segments with equal file numbers come in ascending order of
\* directory number.
C3_SortedByFileId ==
    pc = "replay" =>
        /\ \A i, j \in DOMAIN segments :
              i < j =>
                  \/ segments[i].key < segments[j].key
                  \/ /\ segments[i].key = segments[j].key
                     /\ dir_number(segments[i]) <= dir_number(segments[j])
        /\ \A i \in DOMAIN segments : segments[i].key = number(segments[i].name).n
        /\ Listed = SegmentFilesOnDisk
        /\ Cardinality(Listed) = Len(segments)

C3_Witness ==
    /\ pc = "replay"
    /\ Len(segments) = 2
    /\ dir_number(segments[1]) = 1 /\ segments[1].key = 0
    /\ dir_number(segments[2]) = 0 /\ segments[2].key = 1

-----------------------------------------------------------------------------
(* One call of unpack_data, stepped: the header, then one action per       *)
(* decompression attempt.  The codec is an external library: besides the   *)
(* outcome of the literal-run model it may answer any attempt with the     *)
(* buffer-too-small signal or with another error.                          *)

MaxBlob == 5

MaxPad == 2

MaxAttempts == 64

BlobBytes == {0, 1, 2, 3}

\* compressed lengths around the points where 3 * len and the grown sizes
\* cross the cap
PadLens == {0, 1, LZ4_CAP \div 4, (LZ4_CAP \div 3) - MaxPad, (LZ4_CAP \div 3) + 1,
            LZ4_CAP \div 2, LZ4_CAP - 1, LZ4_CAP + MaxPad}

IsLz4Blob(data) == Len(data) >= 3 /\ data[1] = 2 /\ data[2] = 1 /\ data[3] = 0

InitUnpack ==
    /\ ExtractIdle
    /\ u_data \in SeqsUpTo(BlobBytes, MaxBlob)
    /\ u_pad \in {p \in PadLens : p = 0 \/ IsLz4Blob(u_data)}
    /\ u_pc = "call"
    /\ u_size = 0
    /\ u_attempt = <<>>
    /\ u_result = NoResult

UnpackCall ==
    /\ u_pc = "call"
    /\ LET h == unpack_header(u_data)
       IN  IF h.kind = "ret"
           THEN /\ u_pc' = "returned"
                /\ u_result' = h.res
                /\ u_size' = u_size
           ELSE /\ u_pc' = "loop"
                /\ u_size' = initial_size(Len(h.src) + u_pad)
                /\ u_result' = u_result
    /\ UNCHANGED <<u_data, u_pad, u_attempt, repo_vars, replay_vars, walk_vars, run_vars>>

CodecOutcomes(src, pad, size) ==
    {Err("InvalidInput"), Err("InvalidData")}
        \cup (IF pad = 0 THEN {decompress_to_buffer(src, size)} ELSE {Ok(<<>>)})

Lz4Attempt ==
    /\ u_pc = "loop"
    /\ Len(u_attempt) < MaxAttempts
    /\ \E r \in CodecOutcomes(unpack_header(u_data).src, u_pad, u_size) :
          LET st == lz4_step(u_size, r)
          IN  /\ u_attempt' = Append(u_attempt, u_size)
              /\ u_size' = st.size
              /\ IF st.kind = "ret"
                 THEN u_pc' = "returned" /\ u_result' = st.res
                 ELSE u_pc' = "loop" /\ u_result' = u_result
    /\ UNCHANGED <<u_data, u_pad, repo_vars, replay_vars, walk_vars, run_vars>>

NextUnpack == UnpackCall \/ Lz4Attempt

SpecUnpack == InitUnpack /\ [][NextUnpack]_vars

-----------------------------------------------------------------------------
(* Claims about unpack_data *)

Payloads == SeqsUpTo(BlobBytes, MaxBlob)

\* C8: for every byte sequence P, the empty one included, unpack_data applied
\* to 0x02 || 0x00 0x00 || P returns exactly P.
C8_PlainEnvelopeRoundTrip ==
    \A P \in Payloads :
        u_data = <<2, 0, 0>> \o P =>
            /\ unpack_data(u_data) = Ok(P)
            /\ u_pc = "returned" => u_result = Ok(P)

C8_Witness ==
    /\ u_pc = "returned"
    /\ u_data = <<2, 0, 0, 3, 1>>
    /\ u_result.ok

compression_tag(data) == data[2] + 256 * data[3]

BadEnvelope(data) ==
    \/ Len(data) < 3
    \/ data[1] # 2
    \/ compression_tag(data) \notin {0, 1}

\* C9: unpack_data returns an error, never a payload, for every blob that has
\* fewer than 3 bytes, or whose first byte is not 0x02, or whose compression
\* tag is neither 0 nor 1; the encryption tag is checked before the
\* compression tag (a wrong first byte is reported as such whatever follows).
C9_BadEnvelopeIsError ==
    BadEnvelope(u_data) =>
        /\ ~unpack_data(u_data).ok
        /\ u_pc # "loop"
        /\ u_pc = "returned" => ~u_result.ok /\ u_result.val = <<>>
        /\ (u_pc = "returned" /\ Len(u_data) >= 1 /\ u_data[1] # 2) =>
               u_result.err = "only plaintext data is supported"

C9_Witness ==
    /\ u_pc = "returned"
    /\ u_data = <<3, 2, 0>>
    /\ u_result = Err("only plaintext data is supported")

\* C10: no decompression attempt is made with an output buffer larger than
\* 2^27 bytes.
C10_AttemptsWithinCap ==
    \A i \in DOMAIN u_attempt : u_attempt[i] <= LZ4_CAP

-----------------------------------------------------------------------------
(* Segment files damaged after they were written.  The first file holds    *)
(* up to MaxRecords records and is then cut short, or has one size field,  *)
(* one tag byte or its magic overwritten; a second, intact file follows.   *)

MaxRecords == 2

FrameKey == Id(9)

LastKey == Id(10)

FrameEntries == {Put(FrameKey, <<>>), Put(FrameKey, <<7>>), Delete(FrameKey), Commit}

LastEntries == <<Put(LastKey, <<8>>), Commit>>

ShortSizes == {0, PUT_HEADER - 1}

BadTags == {3, 255}

\* the offset in the file at which record i of es starts
record_offset(es, i) == Len(encode_segment(SubSeq(es, 1, i - 1)))

patch(bytes, at, new) ==
    [j \in DOMAIN bytes |-> IF at < j /\ j <= at + Len(new) THEN new[j - at] ELSE bytes[j]]

Damages(es) ==
    {NoDamage, [kind |-> "magic", at |-> 0, v |-> 0]}
        \cup {[kind |-> "cut", at |-> c, v |-> 0] : c \in 0..(Len(encode_segment(es)) - 1)}
        \cup {[kind |-> "size", at |-> i, v |-> n] :
                 i \in {j \in DOMAIN es : es[j].type = "Put"}, n \in ShortSizes}
        \cup {[kind |-> "tag", at |-> i, v |-> t] : i \in DOMAIN es, t \in BadTags}

\* the bytes of the file holding es after damage d
damaged(es, d) ==
    LET bytes == encode_segment(es)
    IN  CASE d.kind = "cut" -> SubSeq(bytes, 1, d.at)
          [] d.kind = "magic" -> patch(bytes, 7, <<72>>)
          [] d.kind = "size" -> patch(bytes, record_offset(es, d.at) + 4, u32_le(d.v))
          [] d.kind = "tag" -> patch(bytes, record_offset(es, d.at) + 8, <<d.v>>)
          [] OTHER -> bytes

InitFraming ==
    /\ UnpackIdle
    /\ has_config = TRUE
    /\ \E es \in SeqsUpTo(FrameEntries, MaxRecords) :
          \E d \in Damages(es), long \in BOOLEAN :
             /\ long => d.kind = "size"
             /\ log = es \o LastEntries
             /\ damage = d
             /\ item_recs = <<>>
             /\ fs_data = {Dir(<<"0">>,
                               {IF long THEN LongFile(<<"0">>, damaged(es, d))
                                        ELSE File(<<"0">>, damaged(es, d)),
                                File(<<"1">>, encode_segment(LastEntries))})}
    /\ pc = "start"
    /\ ExtractEntry
    /\ run = 1
    /\ first_out = NoFiles

NextFraming == LoadRepository \/ OpenNextSegment \/ ReplayEntry \/ ReplayDone

SpecFraming == InitFraming /\ [][NextFraming]_vars

\* the number of records written to the first file
FirstCount == Len(log) - Len(LastEntries)

IsPrefix(s, t) == Len(s) <= Len(t) /\ s = SubSeq(t, 1, Len(s))

\* C11: iterating an OpenSegment over the bytes that follow the magic of a
\* file of valid records (PUT with size = 41 + payload length, DELETE,
\* COMMIT) yields exactly those records as Ok entries, same variants, keys
\* and payloads, in the same order, and then ends.
C11_FramingRoundTrip ==
    damage = NoDamage =>
        /\ pc # "err"
        /\ IsPrefix(yielded, log)
        /\ (pc = "replay" /\ Len(segments) = 2) => Len(yielded) <= FirstCount
        /\ (pc = "replay" /\ Len(segments) = 1) => Len(yielded) >= FirstCount
        /\ pc = "manifest" => yielded = log

C11_Witness ==
    /\ damage = NoDamage
    /\ item_recs = <<>>
    /\ pc = "manifest"
    /\ log = <<Put(FrameKey, <<7>>), Delete(FrameKey)>> \o LastEntries
    /\ yielded = log

\* C12: the entry sequence of a segment ends without error only when the
\* stream ends exactly at a record boundary, with zero bytes left before a
\* crc field; a stream that ends inside a record, also after only 1 to 3
\* bytes of the crc field, is not a clean end.
C12_CleanEndOnlyAtBoundary ==
    [][(open_seg.open /\ ~open_seg'.open /\ pc' = "replay")
          => open_seg.pos = Len(open_seg.bytes)]_vars

\* C13: a PUT record whose size field is less than 41 is rejected: no Put
\* entry is produced for it, and no payload of the wrapped length
\* (size - 41) mod 2^32 is read.
C13_ShortPutRejected ==
    damage.kind = "size" => Len(yielded) < damage.at

\* C14: a segment whose first 8 bytes are not BORG_SEG, or a record whose tag
\* byte is not 0, 1 or 2, aborts extract: no entry of that segment from the
\* bad point on and no entry of a later segment is yielded or applied to the
\* store, and extract never gets past the replay.
C14_BadMagicOrTagAborts ==
    /\ damage.kind = "magic" =>
          /\ yielded = <<>>
          /\ items = EmptyStore
    /\ damage.kind = "tag" =>
          /\ Len(yielded) < damage.at
          /\ IsPrefix(yielded, log)
          /\ LastKey \notin DOMAIN items
    /\ damage.kind \in {"magic", "tag"} =>
          /\ pc \in {"start", "replay", "err"}
          /\ pc = "replay" => Len(segments) = 2
          /\ pc = "err" =>
                error = IF damage.kind = "tag" THEN "unknown log entry tag"
                        ELSE "segment does not contain BORG_SEG magic number"

C14_Witness ==
    /\ damage = [kind |-> "tag", at |-> 2, v |-> 3]
    /\ pc = "err"
    /\ yielded = <<Put(FrameKey, <<7>>)>>
    /\ items = [k \in {FrameKey} |-> <<7>>]

-----------------------------------------------------------------------------
(* Repositories of one archive whose item blob holds up to MaxItems item   *)
(* records, with paths of up to MaxPath characters and with the chunks key *)
(* missing, empty or naming one chunk; one identifier (of the archive, of  *)
(* the item blob or of the chunk) may be written with a length other than  *)
(* 32.                                                                     *)

MaxItems == 2

MaxPath == 4

\* '/', '.', 'a'
PathChars == {47, 46, 97}

Paths == SeqsUpTo(PathChars, MaxPath)

ChunkOptions == {"none", "empty", "one"}

ItemRecs(paths) == {[path |-> q, chunks |-> c] : q \in paths, c \in ChunkOptions}

\* the blobs: up to MaxItems records with one of two paths, or one record
\* with any path
BlobRecs ==
    SeqsUpTo(ItemRecs({PathA, PathB}), MaxItems) \cup {<<r>> : r \in ItemRecs(Paths)}

IdLens == {0, KEY_LEN - 1, KEY_LEN + 1}

NoBadId == [where |-> "none", len |-> KEY_LEN]

BadIds == {NoBadId} \cup {[where |-> w, len |-> n] : w \in {"archive", "item", "chunk"}, n \in IdLens}

\* the identifier id as written at place w
written_id(bad, w, id) == IF bad.where = w THEN [i \in 1..bad.len |-> id[1]] ELSE id

enc_rec(r, chunk_id) ==
    IF r.chunks = "none" THEN enc_item_no_chunks(r.path)
    ELSE enc_item(r.path, IF r.chunks = "one" THEN <<chunk_id>> ELSE <<>>)

ItemObjects(rs, bad) ==
    [k \in {MANIFEST_ID, ArchiveA, ItemsA, ChunkB} |->
        IF k = MANIFEST_ID
        THEN enc_manifest(<<[name |-> text(<<"a">>), id |-> written_id(bad, "archive", ArchiveA)]>>)
        ELSE IF k = ArchiveA
        THEN enc_archive(text(<<"a">>), <<written_id(bad, "item", ItemsA)>>)
        ELSE IF k = ItemsA
        THEN concat([i \in DOMAIN rs |-> enc_rec(rs[i], written_id(bad, "chunk", ChunkB))])
        ELSE chunk_payload(k)]

InitItems ==
    /\ UnpackIdle
    /\ has_config = TRUE
    /\ damage = NoDamage
    /\ \E rs \in BlobRecs, bad \in BadIds :
          /\ bad # NoBadId => rs \in SeqsUpTo(ItemRecs({PathA, PathB}), MaxItems)
          /\ item_recs = rs
          /\ log = PutsOf(ItemObjects(rs, bad), NoKey) \o <<Commit>>
          /\ fs_data = {Dir(<<"0">>, {File(<<"0">>, encode_segment(log))})}
    /\ pc = "start"
    /\ ExtractEntry
    /\ run = 1
    /\ first_out = NoFiles

NextItems ==
    \/ LoadRepository
    \/ OpenNextSegment
    \/ ReplayEntry
    \/ ReplayDone
    \/ ReadManifest
    \/ NextArchive
    \/ NextItemBlob
    \/ DecodeItem
    \/ WriteChunk

SpecItems == InitItems /\ [][NextItems]_vars

\* the number of '/' among the first i characters of path
Slashes(path, i) == Cardinality({j \in 1..i : path[j] = 47})

\* name is path with every '/' replaced by "__"
IsSubstituted(path, name) ==
    /\ Len(name) = Len(path) + Slashes(path, Len(path))
    /\ \A i \in DOMAIN path :
          LET at == i + Slashes(path, i - 1)
          IN  IF path[i] = 47 THEN name[at] = 95 /\ name[at + 1] = 95
              ELSE name[at] = path[i]

\* name names a direct child of the directory it is resolved in
IsChildName(name) ==
    /\ name # <<>>
    /\ \A i \in DOMAIN name : name[i] # 47
    /\ name # <<46>>
    /\ name # <<46, 46>>

\* C15: the output file name of an item is its path with every '/' replaced
\* by "__"; it holds no '/', and every file extract writes is a direct child
\* of the output directory, whatever the path (absolute, or with ".."
\* components).
C15_FlatOutputNames ==
    /\ \A i \in DOMAIN decoded : IsSubstituted(decoded[i].path, decoded[i].subbed_path)
    /\ \A name \in DOMAIN out_files :
          /\ IsChildName(name)
          /\ \E i \in DOMAIN decoded : IsSubstituted(decoded[i].path, name)

C15_Witness ==
    /\ Returned
    /\ item_recs = <<[path |-> <<46, 46, 47, 97>>, chunks |-> "one"]>>
    /\ DOMAIN out_files = {<<46, 46, 95, 95, 97>>}

\* C16: an item whose chunks list is empty, also when the chunks key is
\* missing, is written as a zero-byte file at its substituted path: after
\* extract that file exists and has length 0.
C16_EmptyItemIsEmptyFile ==
    Returned =>
        \A i \in DOMAIN decoded :
            (decoded[i].chunks = <<>> /\ LastWriter(i) /\ IsChildName(decoded[i].subbed_path)) =>
                /\ decoded[i].subbed_path \in DOMAIN out_files
                /\ out_files[decoded[i].subbed_path] = <<>>

\* C17: for an item blob that is the concatenation of n item records, n = 0
\* included, the item loop decodes exactly those n items, in order, and
\* stops exactly when the cursor position equals the blob length, without an
\* error or a panic of cursor_has_data.
C17_ItemLoopDecodesAll ==
    /\ error \notin {"panic: attempt to subtract with overflow", "decode item msgpack"}
    /\ Len(decoded) <= Len(item_recs)
    /\ \A i \in DOMAIN decoded : decoded[i].path = item_recs[i].path
    /\ (pc \in {"items", "archives", "done"} /\ ItemsA \in seen) =>
          /\ Len(decoded) = Len(item_recs)
          /\ cursor.pos = Len(cursor.data)

\* C18: an identifier decoded from a byte buffer whose length is not 32 is a
\* fatal error: extract does not return success after decoding a manifest
\* archive id, an archive item id or a chunk id of another length.
C18_IdLengthChecked ==
    (Returned /\ MANIFEST_ID \in DOMAIN items) =>
        /\ \A a \in ManifestArchives :
              /\ Len(a.id) = KEY_LEN
              /\ a.id \in DOMAIN items =>
                    \A i \in DOMAIN ArchiveItems(a) : Len(ArchiveItems(a)[i]) = KEY_LEN
        /\ \A i \in DOMAIN decoded :
              \A j \in DOMAIN decoded[i].chunks : Len(decoded[i].chunks[j]) = KEY_LEN

-----------------------------------------------------------------------------
(* Claims about Commit entries, over the logs of SpecReplay *)

StripCommits(l) == SelectSeq(l, LAMBDA e : e.type # "Commit")

\* the store that the Put and Delete entries of l alone describe
StoreOfLog(l) ==
    [k \in {key \in LogKeys : LastPut(l, key) > 0 /\ ~DeletedAfter(l, key, LastPut(l, key))} |->
        l[LastPut(l, k)].data]

YieldsCommit ==
    /\ Len(yielded') = Len(yielded) + 1
    /\ yielded'[Len(yielded')] = Commit

\* C19: a Commit entry leaves the store unchanged, and entries after the
\* last Commit of the log are applied like committed ones: the store is the
\* one described by the Put and Delete entries yielded so far, wherever and
\* whether Commit entries occur among them, and at the end of the replay
\* every entry of the log has been yielded.
C19_CommitIsNoOp ==
    /\ [](pc \in {"replay", "manifest"} =>
             /\ items = StoreOfLog(StripCommits(yielded))
             /\ pc = "manifest" => yielded = log)
    /\ [][YieldsCommit => items' = items]_vars

C19_Witness ==
    /\ pc = "manifest"
    /\ log = <<Put(Id(1), <<7>>), Commit, Put(Id(1), <<8, 9>>)>>
    /\ items = [k \in {Id(1)} |-> <<8, 9>>]

-----------------------------------------------------------------------------
(* A full repository in the first segment file, followed by a second file  *)
(* of up to MaxDamagedRecords records that may be damaged.                 *)

MaxDamagedRecords == 1

InitDamaged ==
    /\ UnpackIdle
    /\ has_config = TRUE
    /\ item_recs = <<>>
    /\ \E es \in SeqsUpTo(FrameEntries, MaxDamagedRecords) :
          \E d \in Damages(es), long \in BOOLEAN :
             LET first == PutsOf(Objects(1, FALSE), NoKey) \o <<Commit>>
             IN  /\ long => d.kind = "size"
                 /\ log = first \o es
                 /\ damage = d
                 /\ fs_data = {Dir(<<"0">>,
                                   {File(<<"0">>, encode_segment(first)),
                                    IF long THEN LongFile(<<"1">>, damaged(es, d))
                                            ELSE File(<<"1">>, damaged(es, d))})}
    /\ pc = "start"
    /\ ExtractEntry
    /\ run = 1
    /\ first_out = NoFiles

SpecDamaged == InitDamaged /\ [][NextItems]_vars

\* the errors of Segment::open and of the entries it yields
SegmentErrors ==
    {"failed 8 byte read", "segment does not contain BORG_SEG magic number",
     "UnexpectedEof", "unknown log entry tag", "panic: attempt to subtract with overflow"}

\* C20: all store mutations happen before the first store lookup and before
\* the first output file write: the store changes only during the replay,
\* when nothing has been looked up or written; once a lookup has happened
\* the replay is over; and if a segment fails to open or yields an error
\* entry, extract ends with an error having looked up nothing and written
\* no output file.
C20_StoreFrozenAfterReplay ==
    /\ [][items' # items => (pc = "replay" /\ seen = {} /\ out_files = NoFiles)]_vars
    /\ []((seen # {} \/ out_files # NoFiles) => pc \notin {"start", "replay"})
    /\ []((pc = "err" /\ error \in SegmentErrors) => (seen = {} /\ out_files = NoFiles))
    /\ [](damage.kind \in {"magic", "tag"} =>
             (seen = {} /\ out_files = NoFiles /\ pc \in {"start", "replay", "err"}))

C20_Witness ==
    /\ damage.kind = "tag"
    /\ pc = "err"
    /\ error = "unknown log entry tag"
    /\ MANIFEST_ID \in DOMAIN items
    /\ out_files = NoFiles

-----------------------------------------------------------------------------
(* Claims about the end of the LZ4 retry loop, over the calls of SpecUnpack *)

Retries == u_pc = "loop" /\ u_pc' = "loop"

\* C21: the LZ4 retry loop of unpack_data always terminates: for every
\* compressed length, 0 included, and even if the codec answers every
\* attempt with the buffer-too-small signal, the buffer size strictly grows
\* on each retry, and the loop has returned before it has used up the
\* attempts modelled.
C21_RetryLoopTerminates ==
    /\ [][Retries => u_size' > u_size]_vars
    /\ [](u_pc = "loop" => Len(u_attempt) < MaxAttempts)

====
